---- MODULE Spec2Model ----
(***************************************************************************)
(* Model of the Yeelight device session (src/unnamed/part_000): the        *)
(* connection lifecycle, command/response correlation, the line framer and *)
(* the timers and socket events that drive them.                           *)
(*                                                                         *)
(* One Yeelight instance is modelled.  Every net.Socket the instance ever  *)
(* creates keeps its listeners, and every listener calls a method of the   *)
(* instance (handleData, handleError, handleClose), whichever socket       *)
(* this.socket currently names.  Socket events and timers are delivered    *)
(* by the event loop in any order the sockets' states allow.               *)
(*                                                                         *)
(* Device discovery (src/unnamed/part_002) is modelled beside it: the      *)
(* cache file, one discover call at a time with its per-interface sockets, *)
(* the bind results and the datagrams received.                            *)
(***************************************************************************)
EXTENDS Integers, Sequences, FiniteSets, TLC

\* ------------------------------------------------------------------ bounds
\* Sockets one instance creates (one per connect() call that is not a no-op).
MaxSockets == 2
\* Commands accepted by sendCommand (values of the id counter).
MaxId == 2
\* Characters the framer may hold back after a handleData call.
MaxBuf == 1
\* Bytes of an inbound stream in the chunking specification.
MaxStream == 4
\* Network interfaces os.networkInterfaces() lists in one discover call.
MaxIfaces == 2
\* Distinct device ips on the network and in the cache file.
MaxIps == 2

Socks == 1..MaxSockets
Ids == 1..MaxId

VARIABLES
    socket,        \* this.socket: 0 is null, else the socket's number
    messageId,     \* this.messageId
    connected,     \* this.connected
    commandQueue,  \* keys of this.commandQueue
    buffer,        \* this.buffer, a sequence of characters
    socks,         \* every net.Socket created: its state, its connect timer,
                   \* the promise connect() returned for it
    cmds,          \* per command id: socket written to, deadline timer,
                   \* the promise's outcome, the write callback
    written,       \* command lines written, per socket
    sendResult,    \* how the last sendCommand call ended
    lastEvent,     \* last of connected/disconnected emitted by the instance
    discSeen,      \* size of the pending table seen by the last
                   \* `disconnected` listener run (-1: none ran)
    stream,        \* chunking specification: the device's byte stream
    pos,           \* chunking specification: bytes of stream delivered
    trace,         \* chunking specification: what handleData emitted,
                   \* settled and logged so far, in order
    cache,         \* Discovery: the cache file, per ip the record or NoDevice
    dpc,           \* Discovery.discover: where the running call stands
    ifaces,        \* discover: the interfaces os.networkInterfaces() listed
    cur,           \* discover: index of the interface the loop is at
    dsocks,        \* discover: the `sockets` array, per interface
    devices,       \* discover: the `devices` map, per key the record
    result,        \* discover: the array returned, as a set of records
    liveSeen,      \* per ip, the records parsed-from responses received
                   \* in the running call
    firstLive      \* per ip, the record of the first such response

vars == <<socket, messageId, connected, commandQueue, buffer, socks, cmds,
          written, sendResult, lastEvent, discSeen, stream, pos, trace,
          cache, dpc, ifaces, cur, dsocks, devices, result, liveSeen,
          firstLive>>

chunkVars == <<stream, pos, trace>>

discVars == <<cache, dpc, ifaces, cur, dsocks, devices, result, liveSeen,
              firstLive>>

sessionVars == <<socket, messageId, connected, commandQueue, buffer, socks,
                 cmds, written, sendResult, lastEvent, discSeen>>

\* ------------------------------------------------------------ characters
NL == "NL"
CR == "CR"
\* The two bytes of one two-byte UTF-8 character and what they decode to.
LeadByte == "C3"
ContByte == "A9"
EAcute == "EACUTE"
Replacement == "FFFD"

Digit(i) == ToString(i)
Digits == {Digit(i) : i \in Ids}
IdOf(c) == CHOOSE i \in Ids : Digit(i) = c
PayloadChars == {"a", EAcute, Replacement}

\* Buffer.toString(): UTF-8 decoding of one chunk on its own.  A lead byte
\* without its continuation byte in the same chunk, and a continuation byte
\* without its lead byte, each decode to U+FFFD.
RECURSIVE Decode(_)
Decode(bytes) ==
    IF bytes = <<>> THEN <<>>
    ELSE IF Head(bytes) = LeadByte
         THEN IF Len(bytes) >= 2 /\ bytes[2] = ContByte
              THEN <<EAcute>> \o Decode(SubSeq(bytes, 3, Len(bytes)))
              ELSE <<Replacement>> \o Decode(Tail(bytes))
         ELSE IF Head(bytes) = ContByte
              THEN <<Replacement>> \o Decode(Tail(bytes))
              ELSE <<Head(bytes)>> \o Decode(Tail(bytes))

\* String.prototype.indexOf("\n"), 1-based; 0 when there is none.
IndexOfNL(str) ==
    IF \E i \in 1..Len(str) : str[i] = NL
    THEN CHOOSE i \in 1..Len(str) :
             str[i] = NL /\ \A j \in 1..(i - 1) : str[j] # NL
    ELSE 0

\* JSON.parse skips white space around the value; the device ends its
\* lines with \r\n, so a line as cut at \n ends with \r.
RECURSIVE TrimCR(_)
TrimCR(line) ==
    IF line # <<>> /\ line[Len(line)] = CR
    THEN TrimCR(SubSeq(line, 1, Len(line) - 1))
    ELSE line

Msg(kind, id, payload) == [kind |-> kind, id |-> id, payload |-> payload]

\* JSON.parse(line) and the shape tests of handleData, on lines written in
\* a one-letter notation for the JSON texts of the wire protocol:
\*   R d  {"id":d,"result":[...]}       E d  {"id":d,"error":{code,message}}
\*   B d  {"id":d,"error":null}         M p* {"method":..,"params":[p*]}
\*   O    an object with neither key    V    a JSON value that is no object
\* and every other text is not JSON (JSON.parse throws SyntaxError).
Parse(line) ==
    LET t == TrimCR(line) IN
    IF Len(t) = 2 /\ t[1] \in {"R", "E", "B"} /\ t[2] \in Digits
    THEN Msg(CASE t[1] = "R" -> "result"
               [] t[1] = "E" -> "error"
               [] OTHER -> "errorNull", IdOf(t[2]), <<>>)
    ELSE IF Len(t) >= 1 /\ t[1] = "M"
            /\ \A i \in 2..Len(t) : t[i] \in PayloadChars
    THEN Msg("notification", 0, Tail(t))
    ELSE IF t = <<"O">> THEN Msg("other", 0, <<>>)
    ELSE IF t = <<"V">> THEN Msg("nonobject", 0, <<>>)
    ELSE Msg("syntax", 0, <<>>)

\* ------------------------------------------------------------- promises
\* resolve()/reject() of the promise sendCommand returns: the first call
\* settles it, later calls do nothing.
SettleAgain(c, outcome) == [c EXCEPT !.outcome = outcome]

Settle(c, outcome) ==
    IF c.outcome = "none" THEN [c EXCEPT !.outcome = outcome] ELSE c

\* The resolve/reject wrappers stored in the commandQueue entry: both
\* clear the deadline timer before settling.
EntrySettle(c, outcome) == Settle([c EXCEPT !.timer = FALSE], outcome)

Out(ev, id, payload) == [ev |-> ev, id |-> id, payload |-> payload]

NoCmd == [sock |-> 0, timer |-> FALSE, outcome |-> "none", write |-> "none"]
NoSock == [state |-> "unused", ctimer |-> FALSE, cres |-> "none"]

\* ---------------------------------------------------------- line routing
\* this.commandQueue.delete(response.id)
DeleteEntry_Clear(queue, id) == {}

DeleteEntry(queue, id) == queue \ {id}

\* The body of handleData's while loop for one line (lines 202-227), on
\* st = [buffer, queue, cmds, routed]: the try block and its catch.
RouteLine(st, line) ==
    LET r == Parse(line)
        logged == [st EXCEPT !.routed = Append(@, Out("log", 0, <<>>))]
    IN
    CASE r.kind \in {"syntax", "nonobject"} -> logged
      [] r.kind = "notification" ->
            [st EXCEPT !.routed = Append(@, Out("notification", 0, r.payload))]
      [] r.kind \in {"result", "error", "errorNull"} ->
            IF r.id \in st.queue
            THEN LET del == [st EXCEPT !.queue = DeleteEntry(@, r.id)] IN
                 CASE r.kind = "error" ->
                        [del EXCEPT
                           !.cmds[r.id] = EntrySettle(@, "deviceError"),
                           !.routed = Append(@, Out("reject", r.id, <<>>))]
                   [] r.kind = "errorNull" ->
                        \* response.error.message throws after the delete
                        [del EXCEPT
                           !.routed = Append(@, Out("log", 0, <<>>))]
                   [] OTHER ->
                        [del EXCEPT
                           !.cmds[r.id] = EntrySettle(@, "resolved"),
                           !.routed = Append(@, Out("resolve", r.id, <<>>))]
            ELSE st
      [] OTHER -> st

\* handleData's while loop: cut the buffer at each "\n" and route the line.
RECURSIVE ProcessBuffer(_)
ProcessBuffer(st) ==
    LET i == IndexOfNL(st.buffer) IN
    IF i = 0 THEN st
    ELSE ProcessBuffer(
             RouteLine([st EXCEPT !.buffer = SubSeq(@, i + 1, Len(@))],
                       SubSeq(st.buffer, 1, i - 1)))

\* handleData(data) as a function of the instance's state.
DataResult(buf, queue, cs, chunk) ==
    ProcessBuffer([buffer |-> buf \o Decode(chunk), queue |-> queue,
                   cmds |-> cs, routed |-> <<>>])

\* --------------------------------------------------------------- handlers
HandleData(chunk) ==
    LET res == DataResult(buffer, commandQueue, cmds, chunk) IN
    /\ buffer' = res.buffer
    /\ commandQueue' = res.queue
    /\ cmds' = res.cmds
    /\ UNCHANGED <<socket, messageId, connected, written, sendResult,
                   lastEvent, discSeen>>

\* An `error` listener is registered on the instance (as the examples do),
\* so emit("error") returns.
HandleError ==
    /\ connected' = FALSE
    /\ UNCHANGED <<socket, messageId, commandQueue, buffer, cmds, written,
                   sendResult, lastEvent, discSeen>>

HandleClose ==
    /\ connected' = FALSE
    /\ lastEvent' = "disconnected"
    /\ discSeen' = Cardinality(commandQueue)
    /\ cmds' = [i \in Ids |-> IF i \in commandQueue
                              THEN EntrySettle(cmds[i], "closed")
                              ELSE cmds[i]]
    /\ commandQueue' = {}
    /\ UNCHANGED <<socket, messageId, buffer, written, sendResult>>

\* ------------------------------------------------------------ operations
NextSock == Cardinality({s \in Socks : socks[s].state # "unused"}) + 1

\* socket.destroy(): the close event follows; destroying twice is a no-op.
Destroy(ss, t) ==
    IF t # 0 /\ ss[t].state \in {"connecting", "open", "failing"}
    THEN [ss EXCEPT ![t].state = "closing"]
    ELSE ss

Connect ==
    IF connected
    THEN UNCHANGED vars
    ELSE /\ NextSock <= MaxSockets
         /\ socket' = NextSock
         /\ socks' = [socks EXCEPT ![NextSock] =
                        [state |-> "connecting", ctimer |-> TRUE,
                         cres |-> "pending"]]
         /\ UNCHANGED <<messageId, connected, commandQueue, buffer, cmds,
                        written, sendResult, lastEvent, discSeen>>
         /\ UNCHANGED <<chunkVars, discVars>>

\* The connect-timeout callback of the connect() call that created s.
ConnectTimeout(s) ==
    /\ socks[s].ctimer
    /\ socks' = [Destroy(socks, socket) EXCEPT
                   ![s].ctimer = FALSE,
                   ![s].cres = IF @ = "pending" THEN "timeout" ELSE @]
    /\ UNCHANGED <<socket, messageId, connected, commandQueue, buffer, cmds,
                   written, sendResult, lastEvent, discSeen>>
    /\ UNCHANGED <<chunkVars, discVars>>

\* The `connect` listener of socket s.
SocketConnect_ResetId(s) ==
    /\ socks[s].state = "connecting"
    /\ socks' = [socks EXCEPT
                   ![s].state = "open",
                   ![s].ctimer = FALSE,
                   ![s].cres = IF @ = "pending" THEN "resolved" ELSE @]
    /\ connected' = TRUE
    /\ lastEvent' = "connected"
    /\ messageId' = 0
    /\ UNCHANGED <<socket, commandQueue, buffer, cmds, written, sendResult,
                   discSeen>>
    /\ UNCHANGED <<chunkVars, discVars>>

SocketConnect(s) ==
    /\ socks[s].state = "connecting"
    /\ socks' = [socks EXCEPT
                   ![s].state = "open",
                   ![s].ctimer = FALSE,
                   ![s].cres = IF @ = "pending" THEN "resolved" ELSE @]
    /\ connected' = TRUE
    /\ lastEvent' = "connected"
    /\ UNCHANGED <<socket, messageId, commandQueue, buffer, cmds, written,
                   sendResult, discSeen>>
    /\ UNCHANGED <<chunkVars, discVars>>

Disconnect ==
    /\ socks' = Destroy(socks, socket)
    /\ socket' = 0
    /\ connected' = FALSE
    /\ UNCHANGED <<messageId, commandQueue, buffer, cmds, written,
                   sendResult, lastEvent, discSeen>>
    /\ UNCHANGED <<chunkVars, discVars>>

SendCommand_SocketOnly ==
    IF socket = 0
    THEN /\ sendResult' = "NotConnected"
         /\ UNCHANGED <<socket, messageId, connected, commandQueue, buffer,
                        socks, cmds, written, lastEvent, discSeen>>
         /\ UNCHANGED <<chunkVars, discVars>>
    ELSE /\ messageId < MaxId
         /\ messageId' = messageId + 1
         /\ commandQueue' = commandQueue \cup {messageId'}
         /\ cmds' = [cmds EXCEPT ![messageId'] =
                       [sock |-> socket, timer |-> TRUE, outcome |-> "none",
                        write |-> "pending"]]
         /\ written' = [written EXCEPT ![socket] = @ + 1]
         /\ sendResult' = "accepted"
         /\ UNCHANGED <<socket, connected, buffer, socks, lastEvent,
                        discSeen>>
         /\ UNCHANGED <<chunkVars, discVars>>

SendCommand ==
    IF ~connected \/ socket = 0
    THEN /\ sendResult' = "NotConnected"
         /\ UNCHANGED <<socket, messageId, connected, commandQueue, buffer,
                        socks, cmds, written, lastEvent, discSeen>>
         /\ UNCHANGED <<chunkVars, discVars>>
    ELSE /\ messageId < MaxId
         /\ messageId' = messageId + 1
         /\ commandQueue' = commandQueue \cup {messageId'}
         /\ cmds' = [cmds EXCEPT ![messageId'] =
                       [sock |-> socket, timer |-> TRUE, outcome |-> "none",
                        write |-> "pending"]]
         /\ written' = [written EXCEPT ![socket] = @ + 1]
         /\ sendResult' = "accepted"
         /\ UNCHANGED <<socket, connected, buffer, socks, lastEvent,
                        discSeen>>
         /\ UNCHANGED <<chunkVars, discVars>>

\* The deadline timer of command id fires (lines 161-164).
CommandTimeout_Clear(id) ==
    /\ cmds[id].timer
    /\ commandQueue' = {}
    /\ cmds' = [cmds EXCEPT ![id] = Settle([@ EXCEPT !.timer = FALSE],
                                           "timeout")]
    /\ UNCHANGED <<socket, messageId, connected, buffer, socks, written,
                   sendResult, lastEvent, discSeen>>
    /\ UNCHANGED <<chunkVars, discVars>>

CommandTimeout(id) ==
    /\ cmds[id].timer
    /\ commandQueue' = commandQueue \ {id}
    /\ cmds' = [cmds EXCEPT ![id] = Settle([@ EXCEPT !.timer = FALSE],
                                           "timeout")]
    /\ UNCHANGED <<socket, messageId, connected, buffer, socks, written,
                   sendResult, lastEvent, discSeen>>
    /\ UNCHANGED <<chunkVars, discVars>>

\* The write callback of command id without an error: nothing to do.
WriteDone(id) ==
    /\ cmds[id].write = "pending"
    /\ socks[cmds[id].sock].state = "open"
    /\ cmds' = [cmds EXCEPT ![id].write = "done"]
    /\ UNCHANGED <<socket, messageId, connected, commandQueue, buffer, socks,
                   written, sendResult, lastEvent, discSeen>>
    /\ UNCHANGED <<chunkVars, discVars>>

\* The write callback of command id with an error (lines 179-189).  A
\* failed write on a live socket also errors that socket.
WriteFail_NoReject(id) ==
    /\ cmds[id].write = "pending"
    /\ commandQueue' = commandQueue \ {id}
    /\ cmds' = [cmds EXCEPT ![id] = [@ EXCEPT !.timer = FALSE,
                                              !.write = "failed"]]
    /\ socks' = [socks EXCEPT ![cmds[id].sock].state =
                   IF @ \in {"connecting", "open"} THEN "failing" ELSE @]
    /\ UNCHANGED <<socket, messageId, connected, buffer, written,
                   sendResult, lastEvent, discSeen>>
    /\ UNCHANGED <<chunkVars, discVars>>

WriteFail(id) ==
    /\ cmds[id].write = "pending"
    /\ commandQueue' = commandQueue \ {id}
    /\ cmds' = [cmds EXCEPT ![id] =
                  Settle([@ EXCEPT !.timer = FALSE, !.write = "failed"],
                         "sendFailure")]
    /\ socks' = [socks EXCEPT ![cmds[id].sock].state =
                   IF @ \in {"connecting", "open"} THEN "failing" ELSE @]
    /\ UNCHANGED <<socket, messageId, connected, buffer, written,
                   sendResult, lastEvent, discSeen>>
    /\ UNCHANGED <<chunkVars, discVars>>

\* --------------------------------------------------------- socket events
SocketData(s, chunk) ==
    /\ socks[s].state = "open"
    /\ Len(DataResult(buffer, commandQueue, cmds, chunk).buffer) <= MaxBuf
    /\ HandleData(chunk)
    /\ UNCHANGED socks
    /\ UNCHANGED <<chunkVars, discVars>>

SocketError(s) ==
    /\ socks[s].state \in {"connecting", "open", "failing"}
    /\ HandleError
    /\ socks' = [socks EXCEPT ![s].state = "closing"]
    /\ UNCHANGED <<chunkVars, discVars>>

\* `close` of socket s: after destroy(), after an error, or when the peer
\* ends an established connection.
SocketClose(s) ==
    /\ socks[s].state \in {"open", "closing"}
    /\ HandleClose
    /\ socks' = [socks EXCEPT ![s].state = "closed"]
    /\ UNCHANGED <<chunkVars, discVars>>

\* ------------------------------------------------------- specifications
\* ------------------------------------------------------------- discovery
\* Discovery.discover (static), one call at a time. A DeviceInfo is modelled
\* by its ip and one content field standing for id, model, name, firmware,
\* support and power.
Ips == 1..MaxIps
Names == {"a", "b"}
IfaceKinds == {"lan", "internal", "ipv6"}
Ifaces == 1..MaxIfaces

Device(ip, name) == [ip |-> ip, name |-> name]
NoDevice == [ip |-> 0, name |-> "none"]
Devices == {Device(ip, n) : ip \in Ips, n \in Names}

\* An SSDP datagram: whether its text contains "yeelight", the ip of its
\* Location header (0: no Location header), and its other headers.
Responses ==
    {[marker |-> TRUE, loc |-> ip, name |-> n] : ip \in Ips \cup {0}, n \in Names}
    \cup {[marker |-> FALSE, loc |-> 0, name |-> "a"]}

\* loadCache: the records of the cache file.
LoadCache == {cache[ip] : ip \in Ips} \ {NoDevice}

\* addDeviceManually: replace the record of the same ip, or append.
AddDeviceManually(d) ==
    /\ cache' = [cache EXCEPT ![d.ip] = d]
    /\ UNCHANGED <<dpc, ifaces, cur, dsocks, devices, result, liveSeen,
                   firstLive>>
    /\ UNCHANGED <<sessionVars, chunkVars>>

\* removeDevice: filter the record of ip out.
RemoveDevice(ip) ==
    /\ cache[ip] # NoDevice
    /\ cache' = [cache EXCEPT ![ip] = NoDevice]
    /\ UNCHANGED <<dpc, ifaces, cur, dsocks, devices, result, liveSeen,
                   firstLive>>
    /\ UNCHANGED <<sessionVars, chunkVars>>

\* parseResponse: no Location header, nothing; else a record is built and
\* stored only when the map has no entry for the ip.
ParseResponse(resp, devs) ==
    IF resp.loc = 0 THEN devs
    ELSE IF devs[resp.loc] # NoDevice THEN devs
    ELSE [devs EXCEPT ![resp.loc] = Device(resp.loc, resp.name)]

\* discover(timeout, useCache) is called; nis is what os.networkInterfaces()
\* lists. The map is seeded from the cache when useCache is set.
Discover(useCache, nis) ==
    /\ dpc \in {"idle", "returned"}
    /\ devices' = [ip \in Ips |->
                     IF useCache /\ cache[ip] \in LoadCache
                     THEN cache[ip] ELSE NoDevice]
    /\ ifaces' = nis
    /\ cur' = 1
    /\ dsocks' = [i \in Ifaces |-> "none"]
    /\ result' = {}
    /\ liveSeen' = [ip \in Ips |-> {}]
    /\ firstLive' = [ip \in Ips |-> NoDevice]
    /\ dpc' = "loop"
    /\ UNCHANGED cache
    /\ UNCHANGED <<sessionVars, chunkVars>>

\* One iteration of the interface loop up to its await: an internal or
\* non-IPv4 interface is skipped; else a socket is created, pushed, given its
\* listeners, and bind is called. After the last interface the timeout wait
\* starts.
LoopStep ==
    /\ dpc = "loop"
    /\ IF cur > Len(ifaces)
       THEN /\ dpc' = "waiting"
            /\ UNCHANGED <<cur, dsocks>>
       ELSE IF ifaces[cur] # "lan"
       THEN /\ cur' = cur + 1
            /\ UNCHANGED <<dpc, dsocks>>
       ELSE /\ dsocks' = [dsocks EXCEPT ![cur] = "binding"]
            /\ dpc' = "binding"
            /\ UNCHANGED cur
    /\ UNCHANGED <<cache, ifaces, devices, result, liveSeen, firstLive>>
    /\ UNCHANGED <<sessionVars, chunkVars>>

\* The bind callback: setBroadcast; addMembership and send, whose exception
\* is caught and logged; resolve. The loop goes on to the next interface.
BindListening(throws) ==
    /\ dpc = "binding"
    /\ dsocks[cur] = "binding"
    /\ dsocks' = [dsocks EXCEPT ![cur] = IF throws THEN "listening"
                                         ELSE "probed"]
    /\ cur' = cur + 1
    /\ dpc' = "loop"
    /\ UNCHANGED <<cache, ifaces, devices, result, liveSeen, firstLive>>
    /\ UNCHANGED <<sessionVars, chunkVars>>

\* The bind fails: dgram emits `error` on the socket, whose listener logs,
\* and the bind callback is never called, so resolve is never called.
BindError ==
    /\ dpc = "binding"
    /\ dsocks[cur] = "binding"
    /\ dsocks' = [dsocks EXCEPT ![cur] = "failed"]
    /\ UNCHANGED <<cache, dpc, ifaces, cur, devices, result, liveSeen,
                   firstLive>>
    /\ UNCHANGED <<sessionVars, chunkVars>>

\* A `message` event on the socket of interface i: a datagram without
\* "yeelight" in it is ignored, any other goes to parseResponse.
Message(i, resp) ==
    LET live == resp.marker /\ resp.loc # 0
        d == Device(resp.loc, resp.name) IN
    /\ dsocks[i] \in {"listening", "probed"}
    /\ devices' = IF resp.marker THEN ParseResponse(resp, devices)
                  ELSE devices
    /\ liveSeen' = IF live
                   THEN [liveSeen EXCEPT ![resp.loc] = @ \cup {d}]
                   ELSE liveSeen
    /\ firstLive' = IF live /\ firstLive[resp.loc] = NoDevice
                    THEN [firstLive EXCEPT ![resp.loc] = d]
                    ELSE firstLive
    /\ UNCHANGED <<cache, dpc, ifaces, cur, dsocks, result>>
    /\ UNCHANGED <<sessionVars, chunkVars>>

\* The timeout timer fires: the map's values are returned and the finally
\* block closes every socket of the `sockets` array.
DiscoverTimeout ==
    /\ dpc = "waiting"
    /\ result' = {devices[k] : k \in Ips} \ {NoDevice}
    /\ dsocks' = [i \in Ifaces |->
                    IF dsocks[i] = "none" THEN "none" ELSE "closed"]
    /\ dpc' = "returned"
    /\ UNCHANGED <<cache, ifaces, cur, devices, liveSeen, firstLive>>
    /\ UNCHANGED <<sessionVars, chunkVars>>

\* No cache file, no discover call made.
InitDisc ==
    /\ cache = [ip \in Ips |-> NoDevice]
    /\ dpc = "idle"
    /\ ifaces = <<>>
    /\ cur = 1
    /\ dsocks = [i \in Ifaces |-> "none"]
    /\ devices = [ip \in Ips |-> NoDevice]
    /\ result = {}
    /\ liveSeen = [ip \in Ips |-> {}]
    /\ firstLive = [ip \in Ips |-> NoDevice]

\* Chunks the device sends in the session specification: one line of each
\* kind, two lines in one chunk, and a line cut in two.
Line(k, i) == <<k, Digit(i), NL>>
SessionChunks ==
    {Line(k, i) : k \in {"R", "E", "B"}, i \in Ids}
    \cup {<<"M", "a", NL>>, <<"O", NL>>, <<"V", NL>>, <<"{", NL>>}
    \cup {Line("R", 1) \o Line("E", MaxId), <<"{", NL>> \o Line("R", 1)}
    \cup {<<"R">>, <<Digit(1), CR, NL>>}

InitSession ==
    /\ socket = 0
    /\ messageId = 0
    /\ connected = FALSE
    /\ commandQueue = {}
    /\ buffer = <<>>
    /\ socks = [s \in Socks |-> NoSock]
    /\ cmds = [i \in Ids |-> NoCmd]
    /\ written = [s \in Socks |-> 0]
    /\ sendResult = "none"
    /\ lastEvent = "none"
    /\ discSeen = -1

Init ==
    /\ InitSession
    /\ stream = <<>>
    /\ pos = 0
    /\ trace = <<>>
    /\ InitDisc

Next ==
    \/ Connect
    \/ Disconnect
    \/ SendCommand
    \/ \E s \in Socks : ConnectTimeout(s)
    \/ \E s \in Socks : SocketConnect(s)
    \/ \E s \in Socks : \E chunk \in SessionChunks : SocketData(s, chunk)
    \/ \E s \in Socks : SocketError(s)
    \/ \E s \in Socks : SocketClose(s)
    \/ \E id \in Ids : CommandTimeout(id)
    \/ \E id \in Ids : WriteDone(id)
    \/ \E id \in Ids : WriteFail(id)

Spec == Init /\ [][Next]_vars

\* Timers fire: a deadline timer that stays armed does fire.
FairSpec == Spec /\ \A id \in Ids : WF_vars(CommandTimeout(id))

\* The chunking specification: one connection, commands sent before the
\* device's byte stream arrives, the stream delivered in chunks cut anywhere.
StreamBytes == {"R", "M", Digit(1), LeadByte, ContByte, NL}
Streams == UNION {[1..n -> StreamBytes] : n \in 0..MaxStream}

InitChunk ==
    /\ InitSession
    /\ stream \in Streams
    /\ pos = 0
    /\ trace = <<>>
    /\ InitDisc

\* A `data` event of socket s carrying the next n bytes of the stream.
Deliver(s, n) ==
    LET chunk == SubSeq(stream, pos + 1, pos + n) IN
    /\ socks[s].state = "open"
    /\ HandleData(chunk)
    /\ trace' = trace \o DataResult(buffer, commandQueue, cmds, chunk).routed
    /\ pos' = pos + n
    /\ UNCHANGED <<socks, stream, discVars>>

NextChunk ==
    \/ pos = 0 /\ socket = 0 /\ Connect
    \/ pos = 0 /\ \E s \in Socks : SocketConnect(s)
    \/ pos = 0 /\ SendCommand
    \/ \E s \in Socks : \E n \in 1..(Len(stream) - pos) : Deliver(s, n)

ChunkSpec == InitChunk /\ [][NextChunk]_vars

\* The discovery specification: the cache operations, discover calls one
\* after the other, and the datagrams and bind results of the network.
InterfaceLists == UNION {[1..n -> IfaceKinds] : n \in 0..MaxIfaces}

NextDisc ==
    \/ \E d \in Devices : AddDeviceManually(d)
    \/ \E ip \in Ips : RemoveDevice(ip)
    \/ \E useCache \in BOOLEAN : \E nis \in InterfaceLists :
           Discover(useCache, nis)
    \/ LoopStep
    \/ \E throws \in BOOLEAN : BindListening(throws)
    \/ BindError
    \/ \E i \in Ifaces : \E resp \in Responses : Message(i, resp)
    \/ DiscoverTimeout

DiscSpec == Init /\ [][NextDisc]_vars

\* The loop runs on, the operating system answers a bind, the timer fires.
DiscFairSpec ==
    /\ DiscSpec
    /\ WF_vars(LoopStep)
    /\ WF_vars((\E throws \in BOOLEAN : BindListening(throws)) \/ BindError)
    /\ WF_vars(DiscoverTimeout)

\* ================================================================ claims
\* The instance's state as handleData's loop sees it.
Here == [buffer |-> <<>>, queue |-> commandQueue, cmds |-> cmds,
         routed |-> <<>>]

\* C1: routing a response line with id x settles only the pending command
\* registered under x (resolved on a result, rejected with the device error
\* on an error), clears its timer and removes only its entry; every other
\* command's entry, timer and completion stay as they were; a response whose
\* id is not in the pending table changes nothing at all.
C1_ResponseSettlesOnlyItsCommand ==
    \A k \in {"R", "E"} : \A x \in Ids :
        LET res == RouteLine(Here, <<k, Digit(x)>>) IN
        /\ \A j \in Ids \ {x} :
              /\ res.cmds[j] = cmds[j]
              /\ (j \in res.queue) <=> (j \in commandQueue)
        /\ x \in commandQueue =>
              /\ x \notin res.queue
              /\ ~res.cmds[x].timer
              /\ res.cmds[x].outcome =
                    (IF k = "R" THEN "resolved" ELSE "deviceError")
              /\ res.routed =
                    <<Out(IF k = "R" THEN "resolve" ELSE "reject", x, <<>>)>>
        /\ x \notin commandQueue => res = Here

\* A response was routed to its command while another command was pending,
\* and that one is still pending with its timer armed.
C1_Witness ==
    \E x \in Ids : \E j \in Ids \ {x} :
        /\ cmds[x].outcome \in {"resolved", "deviceError"}
        /\ j \in commandQueue
        /\ cmds[j].timer
        /\ cmds[j].outcome = "none"
        /\ connected

\* Commands ever accepted, and the commands written to socket s.
Issued == {i \in Ids : cmds[i].sock # 0}
IdsOn(s) == {i \in Ids : cmds[i].sock = s}

\* C2 as claimed: the ids of the commands sent on each connection are
\* 1, 2, ... (the first command of every connection gets id 1).
C2_IdsRestartPerConnection ==
    \A s \in Socks : IdsOn(s) = 1..Cardinality(IdsOn(s))

\* C2 as amended: ids are 1, 2, ... over the lifetime of the Yeelight
\* instance; the counter only ever advances by one, when a command is
\* accepted, and the id it hands out has no entry in the pending table.
C2_IdsIncreasePerInstance ==
    [][/\ Issued' = 1..messageId'
       /\ messageId' # messageId =>
             /\ messageId' = messageId + 1
             /\ messageId' \notin commandQueue
             /\ commandQueue' = commandQueue \cup {messageId'}
             /\ cmds'[messageId'].sock = socket]_vars

\* A command was sent on a second connection after one on an earlier one.
C2_Witness ==
    \E i \in Ids : \E j \in Ids :
        /\ i < j
        /\ cmds[i].sock # 0
        /\ cmds[j].sock # 0
        /\ cmds[i].sock # cmds[j].sock

\* C3: when socket s closes, exactly the commands in the pending table are
\* rejected with ConnectionClosed, their timers are cancelled and the table
\* is empty afterwards; no command registered on another connection is
\* rejected by that close.
C3_CloseRejectsExactlyItsPending ==
    [][\A s \in Socks :
          (socks[s].state # "closed" /\ socks'[s].state = "closed") =>
             /\ commandQueue' = {}
             /\ \A i \in commandQueue :
                   cmds'[i].outcome = "closed" /\ ~cmds'[i].timer
             /\ \A i \in Ids \ commandQueue : cmds'[i] = cmds[i]
             /\ \A i \in Issued :
                   cmds[i].sock # s => cmds'[i].outcome = cmds[i].outcome]_vars

\* The part of C3 that is about the table alone, whichever socket closed.
C3_CloseDrainsTable ==
    [][\A s \in Socks :
          (socks[s].state # "closed" /\ socks'[s].state = "closed") =>
             /\ commandQueue' = {}
             /\ \A i \in commandQueue :
                   cmds'[i].outcome = "closed" /\ ~cmds'[i].timer
             /\ \A i \in Ids \ commandQueue : cmds'[i] = cmds[i]]_vars

\* C4: once the completion of a command is settled its outcome never
\* changes, whichever of response, timeout, write failure and close comes
\* later: a command is settled at most once, by exactly one of them.
C4_SettledOnce ==
    [][\A i \in Ids :
          cmds[i].outcome # "none" => cmds'[i].outcome = cmds[i].outcome]_vars

\* A command rejected by the close of its connection whose write callback
\* then reported an error as well.
C4_Witness ==
    \E i \in Ids : cmds[i].outcome = "closed" /\ cmds[i].write = "failed"

\* C5: an armed deadline timer belongs to an unsettled command; when it
\* fires the command is rejected with CommandTimeout and its entry removed,
\* and every other command's entry, timer and completion are unchanged.
C5_TimeoutOnlyItsCommand ==
    [][\A i \in Ids :
          /\ cmds[i].timer => cmds[i].outcome = "none"
          /\ (cmds[i].outcome # "timeout" /\ cmds'[i].outcome = "timeout") =>
                /\ cmds[i].timer
                /\ ~cmds'[i].timer
                /\ i \notin commandQueue'
                /\ \A j \in Ids \ {i} :
                      /\ cmds'[j] = cmds[j]
                      /\ (j \in commandQueue') <=> (j \in commandQueue)]_vars

\* One command timed out while another is still pending, timer armed.
C5_Witness ==
    \E i \in Ids : \E j \in Ids \ {i} :
        /\ cmds[i].outcome = "timeout"
        /\ j \in commandQueue
        /\ cmds[j].timer
        /\ cmds[j].outcome = "none"

\* C6: under fair firing of the deadline timers every accepted command is
\* eventually settled, whatever responses, malformed lines, write failures,
\* disconnects, errors and closes occur.
C6_EventuallySettled ==
    \A i \in Ids : (cmds[i].sock # 0) ~> (cmds[i].outcome # "none")

\* An accepted command that is out of the pending table and not settled:
\* only its deadline timer is left to settle it.
C6_Witness ==
    \E i \in Ids :
        /\ cmds[i].sock # 0
        /\ i \notin commandQueue
        /\ cmds[i].outcome = "none"
        /\ cmds[i].timer

\* C7: while the session is not Connected no step advances the id counter,
\* adds a pending entry, arms a deadline timer or writes to a socket, and a
\* sendCommand call that fails with NotConnected changes nothing else.
C7_NotConnectedChangesNothing ==
    [][/\ (~connected \/ socket = 0) =>
             /\ messageId' = messageId
             /\ written' = written
             /\ commandQueue' \subseteq commandQueue
             /\ \A i \in Ids : cmds'[i].timer => cmds[i].timer
             /\ sendResult' \in {sendResult, "NotConnected"}
       /\ sendResult' # sendResult /\ sendResult' = "NotConnected" =>
             /\ ~connected \/ socket = 0
             /\ UNCHANGED <<socket, messageId, connected, commandQueue,
                            buffer, socks, cmds, written, lastEvent,
                            discSeen>>]_vars

\* sendCommand was refused after commands had been accepted on an earlier
\* connection and the session had left Connected.
C7_Witness ==
    /\ sendResult = "NotConnected"
    /\ messageId > 0
    /\ ~connected

\* Lines that are not valid per the wire protocol: not JSON, JSON but no
\* object, an object of neither shape, a response with a null error.
InvalidLines ==
    {<<"{">>, <<"V">>, <<"O">>} \cup {<<"B", Digit(i)>> : i \in Ids}

\* What was routed, without the reports to the diagnostic sink.
RECURSIVE NoLogs(_)
NoLogs(r) ==
    IF r = <<>> THEN <<>>
    ELSE IF Head(r).ev = "log" THEN NoLogs(Tail(r))
    ELSE <<Head(r)>> \o NoLogs(Tail(r))

\* C8: an invalid line is discarded: it leaves the pending table, the
\* timers and the completions alone, and the lines after it in the same
\* chunk are routed as if it had not been received.
C8_InvalidLineDiscarded ==
    \A bad \in InvalidLines : \A rest \in SessionChunks \cup {<<>>} :
        LET with == DataResult(<<>>, commandQueue, cmds,
                               bad \o <<NL>> \o rest)
            without == DataResult(<<>>, commandQueue, cmds, rest)
        IN /\ with.queue = without.queue
           /\ with.cmds = without.cmds
           /\ with.buffer = without.buffer
           /\ NoLogs(with.routed) = NoLogs(without.routed)

\* The state in which the stream starts to arrive in the chunking
\* specification, and handleData's result on the whole stream as one chunk.
PreCmds ==
    [i \in Ids |-> IF i <= messageId
                   THEN [sock |-> 1, timer |-> TRUE, outcome |-> "none",
                         write |-> "pending"]
                   ELSE NoCmd]
Whole == DataResult(<<>>, 1..messageId, PreCmds, stream)

\* C9: once the whole stream is delivered, in whatever chunks, what was
\* routed (in order), the residual buffer, the pending table and the
\* commands' completions are those of delivering it as a single chunk.
C9_ChunkingInvisible ==
    (pos = Len(stream) /\ pos > 0) =>
        /\ trace = Whole.routed
        /\ buffer = Whole.buffer
        /\ commandQueue = Whole.queue
        /\ cmds = Whole.cmds

\* The same for streams of one-byte characters only.
C9_ChunkingInvisibleAscii ==
    (\A k \in 1..Len(stream) : stream[k] \notin {LeadByte, ContByte}) =>
        C9_ChunkingInvisible

\* C10: whenever a `disconnected` listener has run, the pending table it
\* saw was empty.
C10_ListenerSeesEmptyTable == discSeen <= 0

\* C11: a transport error on a connect attempt that is not yet established
\* rejects the promise connect() returned with that error (so the attempt
\* ends as resolved, as failed with the error, or as timed out).
C11_ErrorRejectsConnect ==
    [][\A s \in Socks :
          (SocketError(s) /\ socks[s].cres = "pending") =>
              socks'[s].cres = "error"]_vars

\* Sockets of the instance that are connecting or established.
LiveSocks == {s \in Socks : socks[s].state \in {"connecting", "open", "failing"}}

\* C15: the instance never has more than one live transport socket.
C15_OneLiveSocket == Cardinality(LiveSocks) <= 1

\* C16: while the session is Connected on this.socket, every entry of the
\* pending table belongs to a command sent on that connection.
C16_TableOfCurrentConnection ==
    (connected /\ socket # 0) =>
        \A i \in commandQueue : cmds[i].sock = socket

\* C17: when the attempt that created socket s was abandoned (s destroyed
\* or closed before it was established) and its connect-timeout timer
\* fires, no established socket of a later attempt is destroyed.
C17_TimerDestroysOwnSocket ==
    [][\A s \in Socks :
          (ConnectTimeout(s) /\ socks[s].state \in {"closing", "closed"}) =>
              \A t \in Socks \ {s} :
                  socks[t].state = "open" => socks'[t].state = "open"]_vars

\* C18: a command's deadline timer is armed exactly while its entry is in
\* the pending table.
C18_TimerIffPending ==
    \A i \in Ids : cmds[i].timer <=> (i \in commandQueue)

\* C19: when a connection becomes Connected after every earlier
\* connection of the instance has closed, the framer's buffer is empty.
C19_BufferEmptyOnConnect ==
    [][\A s \in Socks :
          (/\ SocketConnect(s)
           /\ \A t \in Socks \ {s} : socks[t].state \in {"unused", "closed"}) =>
              buffer = <<>>]_vars

\* C20: `connected` and `disconnected` alternate, starting with
\* `connected`: `disconnected` is emitted only after a `connected` that has
\* not been answered yet, `connected` never twice in a row.
C20_EventsAlternate ==
    [][\A s \in Socks :
          /\ SocketClose(s) => lastEvent = "connected"
          /\ SocketConnect(s) => lastEvent # "connected"]_vars

\* C12: when discover returns, for every ip that answered during the scan
\* the returned record of that ip is one parsed from a live response, also
\* when the ip was in the cache the result was seeded from.
C12_LiveOverwritesCache ==
    dpc = "returned" =>
        \A ip \in Ips :
            liveSeen[ip] # {} =>
                /\ \E d \in result : d.ip = ip
                /\ \A d \in result : d.ip = ip => d \in liveSeen[ip]

\* C13: during and after a discover call the result set holds at most one
\* record per ip, and for an ip that answered it is the record of the first
\* response processed for that ip.
C13_FirstResponseKept ==
    dpc # "idle" =>
        /\ \A k1, k2 \in Ips :
               (devices[k1] # NoDevice /\ devices[k1].ip = devices[k2].ip) =>
                   k1 = k2
        /\ \A d1, d2 \in result : d1.ip = d2.ip => d1 = d2
        /\ \A ip \in Ips :
               firstLive[ip] # NoDevice => devices[ip] = firstLive[ip]

\* C14: every discover call returns, with every socket it opened closed,
\* whatever happens to the bind, the multicast join and the probe.
C14_DiscoverReturnsClosed ==
    (dpc = "loop") ~>
        (dpc = "returned" /\ \A i \in Ifaces : dsocks[i] \in {"none", "closed"})

====
